---- MODULE Spec2Model ----
\* Model of mcp-ssh-ops: the structured command/pipeline data model, the
\* allowlist validator (CommandValidator), the shell renderer
\* (build_shell_command) and the ssh_exec tool that chains them in front of
\* the SSH transport.
\*
\* Strings are sequences of one-character strings, so that the regular
\* expression, the quoting and the flag matching are computed character by
\* character as the Python code computes them.
EXTENDS Integers, Sequences, FiniteSets, TLC

VARIABLES
    settings,            \* CommandValidator.settings
    safe_commands,       \* CommandValidator.safe_commands
    dangerous_commands,  \* CommandValidator.dangerous_commands
    whitelist,           \* CommandValidator._whitelist (program -> set of tokens)
    blacklist,           \* CommandValidator._blacklist (program -> set of tokens)
    input,               \* arguments of the function under study
    output,              \* what it returned or raised
    calls,               \* the ssh_exec coroutines in flight: locals and position
    recap_dir,           \* RecapLogger._dir is set
    recap_log            \* what RecapLogger.save has written

vars == <<settings, safe_commands, dangerous_commands, whitelist, blacklist,
          input, output, calls, recap_dir, recap_log>>

-----------------------------------------------------------------------------
\* Characters and strings

Lower == {"a","b","c","d","e","f","g","h","i","j","k","l","m",
          "n","o","p","q","r","s","t","u","v","w","x","y","z"}
Upper == {"A","B","C","D","E","F","G","H","I","J","K","L","M",
          "N","O","P","Q","R","S","T","U","V","W","X","Y","Z"}
Digit == {"0","1","2","3","4","5","6","7","8","9"}

\* [a-zA-Z0-9_] and [a-zA-Z0-9_.+-] of VALID_PROGRAM_NAME
NameFirst == Lower \cup Upper \cup Digit \cup {"_"}
NameRest  == NameFirst \cup {".", "+", "-"}

\* shlex's safe set: the complement of [^\w@%+=:,./-] under re.ASCII
ShlexSafe == Lower \cup Upper \cup Digit \cup
             {"_", "@", "%", "+", "=", ":", ",", ".", "/", "-"}

\* every character Python's str.isspace / the shell treat as blank space
Whitespace == {" ", "\t", "\n", "\r"}

\* all strings over alphabet A of length at most n
StringsUpTo(A, n) == UNION {[1..k -> A] : k \in 0..n}

\* str.startswith
StartsWith(s, p) == Len(s) >= Len(p) /\ SubSeq(s, 1, Len(p)) = p

\* the characters occurring in s
Chars(s) == {s[i] : i \in 1..Len(s)}

\* Flatten a sequence of strings, putting sep between neighbours (str.join)
RECURSIVE Join(_, _)
Join(parts, sep) ==
    IF parts = <<>> THEN <<>>
    ELSE IF Len(parts) = 1 THEN parts[1]
    ELSE parts[1] \o sep \o Join(Tail(parts), sep)

-----------------------------------------------------------------------------
\* Command / Pipeline construction (pydantic field validators)

\* re.match of ^[a-zA-Z0-9_][a-zA-Z0-9_.+-]*$ : Python's $ (no MULTILINE)
\* matches at the very end and also just before a final newline.
RegexMatchStrict(v) ==
    /\ Len(v) >= 1
    /\ v[1] \in NameFirst
    /\ \A i \in 2..Len(v) : v[i] \in NameRest

RegexMatch(v) ==
    \/ RegexMatchStrict(v)
    \/ /\ Len(v) >= 2
       /\ v[Len(v)] = "\n"
       /\ RegexMatchStrict(SubSeq(v, 1, Len(v) - 1))

\* Command.validate_program_name: TRUE when the value is returned, FALSE
\* when ValueError is raised (pydantic turns it into ValidationError)
validate_program_name(v) == RegexMatch(v)

\* Pipeline.validate_non_empty that lets the empty list through
Mut_validate_non_empty(cmds) == TRUE

\* Pipeline.validate_non_empty
validate_non_empty(cmds) == cmds # <<>>

\* Command(program=..., args=...): the outcome of construction
NewCommand(program, args) ==
    IF validate_program_name(program)
    THEN [raised |-> FALSE, value |-> [program |-> program, args |-> args]]
    ELSE [raised |-> TRUE,  value |-> [program |-> <<>>, args |-> <<>>]]

\* Pipeline(commands=[...]) from raw (program, args) pairs: every Command is
\* constructed first, then the list is checked for emptiness.
NewPipeline(raw) ==
    LET built == [i \in 1..Len(raw) |-> NewCommand(raw[i].program, raw[i].args)]
    IN  IF \E i \in 1..Len(raw) : built[i].raised
        THEN [raised |-> TRUE, error |-> "InvalidProgramName", value |-> <<>>]
        ELSE IF ~validate_non_empty(raw)
        THEN [raised |-> TRUE, error |-> "EmptyPipeline", value |-> <<>>]
        ELSE [raised |-> FALSE, error |-> "None",
              value |-> [i \in 1..Len(raw) |-> built[i].value]]

-----------------------------------------------------------------------------
\* build_shell_command

\* str.replace("'", "'\"'\"'"): every single quote becomes '"'"'
RECURSIVE EscapeQuotes(_)
EscapeQuotes(s) ==
    IF s = <<>> THEN <<>>
    ELSE (IF Head(s) = "'" THEN <<"'", "\"", "'", "\"", "'">> ELSE <<Head(s)>>)
         \o EscapeQuotes(Tail(s))

\* shlex.quote without the escaping of embedded single quotes
MutShlexQuote(s) ==
    IF s = <<>> THEN <<"'", "'">>
    ELSE IF Chars(s) \subseteq ShlexSafe THEN s
    ELSE <<"'">> \o s \o <<"'">>

\* shlex.quote
ShlexQuote(s) ==
    IF s = <<>> THEN <<"'", "'">>
    ELSE IF Chars(s) \subseteq ShlexSafe THEN s
    ELSE <<"'">> \o EscapeQuotes(s) \o <<"'">>

\* parts = [quote(program)] + [quote(arg) ...]; " ".join(parts)
Segment(cmd) ==
    Join(<<ShlexQuote(cmd.program)>>
            \o [i \in 1..Len(cmd.args) |-> ShlexQuote(cmd.args[i])],
         <<" ">>)

build_shell_command(pipeline) ==
    Join([i \in 1..Len(pipeline) |-> Segment(pipeline[i])], <<" ", "|", " ">>)

-----------------------------------------------------------------------------
\* CommandValidator

\* Optional[str]
None == [some |-> FALSE, val |-> <<>>]
Some(s) == [some |-> TRUE, val |-> s]

\* Python truthiness of an Optional[str]: None and "" are both falsy
Truthy(m) == m.some /\ m.val # <<>>

\* token.split("=", 1)[0] for a token that contains "="
RECURSIVE BeforeEquals(_)
BeforeEquals(s) ==
    IF s = <<>> \/ Head(s) = "=" THEN <<>>
    ELSE <<Head(s)>> \o BeforeEquals(Tail(s))

\* the entries b the loop of _find_blocked_arg can return for token
ShortFlagHits(token, blocked) ==
    {b \in blocked :
        /\ StartsWith(b, <<"-">>)
        /\ ~StartsWith(b, <<"-", "-">>)
        /\ Len(b) = 2
        /\ b[2] \in Chars(Tail(token))}

\* _find_blocked_arg without the "not token.startswith('--')" test
Mut_find_blocked_arg(token, blocked) ==
    IF token \in blocked THEN {Some(token)}
    ELSE IF "=" \in Chars(token) /\ BeforeEquals(token) \in blocked
    THEN {Some(BeforeEquals(token))}
    ELSE IF /\ StartsWith(token, <<"-">>)
            /\ Len(token) > 2
            /\ ShortFlagHits(token, blocked) # {}
    THEN {Some(b) : b \in ShortFlagHits(token, blocked)}
    ELSE {None}

\* _find_blocked_arg: the set of values it can return. The loop runs over a
\* Python set, whose iteration order is not fixed, so when several entries
\* hit, any of them may be the one returned.
find_blocked_arg(token, blocked) ==
    IF token \in blocked THEN {Some(token)}
    ELSE IF "=" \in Chars(token) /\ BeforeEquals(token) \in blocked
    THEN {Some(BeforeEquals(token))}
    ELSE IF /\ StartsWith(token, <<"-">>)
            /\ ~StartsWith(token, <<"-", "-">>)
            /\ Len(token) > 2
            /\ ShortFlagHits(token, blocked) # {}
    THEN {Some(b) : b \in ShortFlagHits(token, blocked)}
    ELSE {None}

\* settings values: a mapping with or without the allow_pipes key, or the
\* non-mapping None that config.get("settings", {}) yields for "settings:"
SettingsEmpty == [allow_pipes |-> TRUE, has_allow_pipes |-> FALSE, mapping |-> TRUE]
SettingsPipes(b) == [allow_pipes |-> b, has_allow_pipes |-> TRUE, mapping |-> TRUE]
SettingsNone == [allow_pipes |-> TRUE, has_allow_pipes |-> FALSE, mapping |-> FALSE]

\* self.settings.get("allow_pipes", False)
MutGetAllowPipes(s) == IF s.has_allow_pipes THEN s.allow_pipes ELSE FALSE

\* self.settings.get("allow_pipes", True)
GetAllowPipes(s) == IF s.has_allow_pipes THEN s.allow_pipes ELSE TRUE

\* the (is_valid, error_message) tuples; a message is its template and the
\* values formatted into it
Reason(err, program, arg) == [err |-> err, program |-> program, arg |-> arg]
NoReason == Reason("None", <<>>, <<>>)
Accepted == [kind |-> "return", ok |-> TRUE, reason |-> NoReason]
Rejected(err, program, arg) ==
    [kind |-> "return", ok |-> FALSE, reason |-> Reason(err, program, arg)]
Raised(err) == [kind |-> "raise", ok |-> FALSE, reason |-> Reason(err, <<>>, <<>>)]

\* the category check with a program of neither set treated as a dangerous one
MutCategoryUnknown(dangerous, safe, program, allow_dangerous) ==
    IF program \in dangerous \/ program \notin safe
    THEN IF ~allow_dangerous
         THEN {Rejected("DangerousProgramBlocked", program, <<>>)}
         ELSE {}
    ELSE {}

\* the category check with the safe test ahead of the dangerous one
MutCategorySafeFirst(dangerous, safe, program, allow_dangerous) ==
    IF program \in safe THEN {}
    ELSE IF program \in dangerous
    THEN IF ~allow_dangerous
         THEN {Rejected("DangerousProgramBlocked", program, <<>>)}
         ELSE {}
    ELSE {Rejected("ProgramNotAllowed", program, <<>>)}

\* the category check of one command: the rejection, or {} to go on
CategoryCheck(dangerous, safe, program, allow_dangerous) ==
    IF program \in dangerous
    THEN IF ~allow_dangerous
         THEN {Rejected("DangerousProgramBlocked", program, <<>>)}
         ELSE {}
    ELSE IF program \notin safe
    THEN {Rejected("ProgramNotAllowed", program, <<>>)}
    ELSE {}

\* the whitelist loop with the blacklist's matching rules in place of membership
MutWhitelistCheck(wl, cmd) ==
    IF cmd.program \in DOMAIN wl
    THEN LET bad == {i \in 1..Len(cmd.args) :
                        find_blocked_arg(cmd.args[i], wl[cmd.program]) = {None}}
         IN  IF bad = {} THEN {}
             ELSE LET first == CHOOSE i \in bad : \A j \in bad : i <= j
                  IN  {Rejected("ArgumentNotWhitelisted", cmd.program, cmd.args[first])}
    ELSE {}

\* the whitelist loop of one command: rejection on the first arg not in allowed
WhitelistCheck(wl, cmd) ==
    IF cmd.program \in DOMAIN wl
    THEN LET bad == {i \in 1..Len(cmd.args) : cmd.args[i] \notin wl[cmd.program]}
         IN  IF bad = {} THEN {}
             ELSE LET first == CHOOSE i \in bad : \A j \in bad : i <= j
                  IN  {Rejected("ArgumentNotWhitelisted", cmd.program, cmd.args[first])}
    ELSE {}

\* "if matched:" on the value _find_blocked_arg returned
MatchedTest(m) == Truthy(m)

\* the blacklist loop of one command from argument i on: the rejections it
\* can end with (one per value _find_blocked_arg may return), {} when every
\* remaining argument can pass. An argument passes when the value returned
\* for it fails the test.
RECURSIVE BlacklistFrom(_, _, _)
BlacklistFrom(blocked, cmd, i) ==
    IF i > Len(cmd.args) THEN [rejects |-> {}, passes |-> TRUE]
    ELSE LET ms   == find_blocked_arg(cmd.args[i], blocked)
             hit  == {m \in ms : MatchedTest(m)}
             rest == IF hit = ms THEN [rejects |-> {}, passes |-> FALSE]
                     ELSE BlacklistFrom(blocked, cmd, i + 1)
         IN  [rejects |-> {Rejected("ArgumentBlacklisted", cmd.program, m.val) : m \in hit}
                            \cup rest.rejects,
              passes  |-> rest.passes]

BlacklistCheck(bl, cmd) ==
    IF cmd.program \in DOMAIN bl
    THEN BlacklistFrom(bl[cmd.program], cmd, 1)
    ELSE [rejects |-> {}, passes |-> TRUE]

\* the body of "for cmd in pipeline.commands" from command k on
RECURSIVE ValidateFrom(_, _, _, _, _, _, _)
ValidateFrom(safe, dangerous, wl, bl, pipeline, allow_dangerous, k) ==
    IF k > Len(pipeline) THEN {Accepted}
    ELSE LET cmd == pipeline[k]
             cat == CategoryCheck(dangerous, safe, cmd.program, allow_dangerous)
             w   == WhitelistCheck(wl, cmd)
             b   == BlacklistCheck(bl, cmd)
         IN  IF cat # {} THEN cat
             ELSE IF w # {} THEN w
             ELSE b.rejects \cup
                  (IF b.passes
                   THEN ValidateFrom(safe, dangerous, wl, bl, pipeline,
                                     allow_dangerous, k + 1)
                   ELSE {})

\* CommandValidator.validate_pipeline: the set of outcomes the call can have
validate_pipeline(st, safe, dangerous, wl, bl, pipeline, allow_dangerous) ==
    IF ~st.mapping THEN {Raised("AttributeError")}
    ELSE IF ~GetAllowPipes(st) /\ Len(pipeline) > 1
    THEN {Rejected("PipesDisallowed", <<>>, <<>>)}
    ELSE ValidateFrom(safe, dangerous, wl, bl, pipeline, allow_dangerous, 1)

-----------------------------------------------------------------------------
\* Bounds of the checked instances

MaxNameLen == 3    \* longest program string offered to Command(...)
MaxTokLen == 2     \* longest argument token offered to the renderer
MaxMatchLen == 3   \* longest token offered to _find_blocked_arg
MaxBlocked == 2    \* most entries in a blacklist offered to _find_blocked_arg
MaxCmds == 2       \* most commands in a pipeline
MaxArgs == 2       \* most argument tokens in a pipeline
MaxSpecs == 1      \* most programs whose spec declares args lists
NumCalls == 2      \* ssh_exec calls in flight together

\* programs and tokens the instances are built from
ps == <<"p", "s">>
kill == <<"k", "i", "l", "l">>
psNewline == <<"p", "s", "\n">>
flagC == <<"-", "C">>
flagCl == <<"-", "C", "l">>
flagCeq == <<"-", "C", "=", "1">>
empty == <<>>

NameAlphabet == {"a", "Z", "0", "_", ".", "+", "-", "/", " ", "\n", "\t", ";", "|"}
\* the backquote character: a TLA+ string literal cannot hold it
Backquote == "backquote"
RenderAlphabet == {"a", " ", ";", "'", "\"", "|", "$", "(", Backquote, "&", "\n"}
MatchAlphabet == {"-", "C", "l", "c", "="}

\* the state untouched by a function studied on its own
IdleValidator ==
    /\ settings = SettingsEmpty
    /\ safe_commands = {}
    /\ dangerous_commands = {}
    /\ whitelist = <<>>
    /\ blacklist = <<>>

IdleServer ==
    /\ calls = <<>>
    /\ recap_dir = FALSE
    /\ recap_log = <<>>

\* A pipeline of k commands given as the program of each command, the
\* argument tokens of the whole pipeline in order, and for each token the
\* command that owns it (owners never decrease, so each pipeline is drawn once)
Nondecreasing(owner) ==
    \A i \in 1..(Len(owner) - 1) : owner[i] <= owner[i + 1]

RECURSIVE ArgsOf(_, _, _)
ArgsOf(toks, owner, i) ==
    IF toks = <<>> THEN <<>>
    ELSE (IF Head(owner) = i THEN <<Head(toks)>> ELSE <<>>)
         \o ArgsOf(Tail(toks), Tail(owner), i)

BuildPipeline(progs, toks, owner) ==
    [i \in 1..Len(progs) |-> [program |-> progs[i], args |-> ArgsOf(toks, owner, i)]]

\* the subsets of S with at most n elements
RECURSIVE SetsUpTo(_, _)
SetsUpTo(S, n) ==
    IF n = 0 THEN {{}}
    ELSE LET smaller == SetsUpTo(S, n - 1)
         IN  smaller \cup {B \cup {x} : B \in smaller, x \in S}

-----------------------------------------------------------------------------
\* Command construction on its own

InitName ==
    /\ IdleValidator /\ IdleServer
    /\ input \in {[program |-> v] : v \in StringsUpTo(NameAlphabet, MaxNameLen)}
    /\ output = [done |-> FALSE, raised |-> FALSE]

ConstructCommand ==
    /\ ~output.done
    /\ output' = [done |-> TRUE, raised |-> NewCommand(input.program, <<>>).raised]
    /\ UNCHANGED <<settings, safe_commands, dangerous_commands, whitelist,
                   blacklist, input, calls, recap_dir, recap_log>>

NextName == ConstructCommand

SpecName == InitName /\ [][NextName]_vars

-----------------------------------------------------------------------------
\* build_shell_command on its own

RenderPrograms == {ps, psNewline}

InitRender ==
    /\ IdleValidator /\ IdleServer
    /\ \E k \in 1..MaxCmds, n \in 0..MaxArgs :
         \E progs \in [1..k -> RenderPrograms],
            toks \in [1..n -> StringsUpTo(RenderAlphabet, MaxTokLen)],
            owner \in [1..n -> 1..k] :
              /\ Nondecreasing(owner)
              /\ input = [pipeline |-> BuildPipeline(progs, toks, owner)]
    /\ output = [done |-> FALSE, command |-> <<>>]

Render ==
    /\ ~output.done
    /\ output' = [done |-> TRUE, command |-> build_shell_command(input.pipeline)]
    /\ UNCHANGED <<settings, safe_commands, dangerous_commands, whitelist,
                   blacklist, input, calls, recap_dir, recap_log>>

NextRender == Render

SpecRender == InitRender /\ [][NextRender]_vars

-----------------------------------------------------------------------------
\* _find_blocked_arg on its own

color == <<"-", "-", "c", "o", "l", "o", "r">>
flaglC == <<"-", "l", "C">>
flagc == <<"-", "c">>

MatchTokens == StringsUpTo(MatchAlphabet, MaxMatchLen) \cup {color}
MatchEntries == StringsUpTo(MatchAlphabet, 2)
BlockedSets == SetsUpTo(MatchEntries, MaxBlocked)

InitMatch ==
    /\ IdleValidator /\ IdleServer
    /\ \E t \in MatchTokens, B \in BlockedSets : input = [token |-> t, blocked |-> B]
    /\ output = [done |-> FALSE, matched |-> None]

FindBlockedArg ==
    /\ ~output.done
    /\ \E m \in find_blocked_arg(input.token, input.blocked) :
          output' = [done |-> TRUE, matched |-> m]
    /\ UNCHANGED <<settings, safe_commands, dangerous_commands, whitelist,
                   blacklist, input, calls, recap_dir, recap_log>>

NextMatch == FindBlockedArg

SpecMatch == InitMatch /\ [][NextMatch]_vars

-----------------------------------------------------------------------------
\* validate_pipeline on its own, for every policy a configuration can build

ValidatePrograms == {ps, kill}
ValidateTokens == {empty, flagC, flagCl, flagCeq}
ListEntries == {empty, flagC}

AllSettings == {SettingsPipes(FALSE), SettingsPipes(TRUE), SettingsEmpty, SettingsNone}

\* "if wl: self._whitelist[cmd] = set(wl)": only the non-empty lists are indexed
BuildIndex(lists) ==
    [p \in {q \in DOMAIN lists : lists[q] # {}} |-> lists[p]]

\* the validators __init__ can build: the lists belong to configured programs
DrawValidator ==
    /\ settings \in AllSettings
    /\ safe_commands \in SUBSET ValidatePrograms
    /\ dangerous_commands \in SUBSET ValidatePrograms
    /\ \E specd \in SetsUpTo(safe_commands \cup dangerous_commands, MaxSpecs) :
         \E wl \in [specd -> SUBSET ListEntries], bl \in [specd -> SUBSET ListEntries] :
            /\ whitelist = BuildIndex(wl)
            /\ blacklist = BuildIndex(bl)

InitValidate ==
    /\ DrawValidator
    /\ IdleServer
    /\ \E k \in 1..MaxCmds, n \in 0..MaxArgs, ad \in BOOLEAN :
         \E progs \in [1..k -> ValidatePrograms],
            toks \in [1..n -> ValidateTokens],
            owner \in [1..n -> 1..k] :
              /\ Nondecreasing(owner)
              /\ input = [pipeline |-> BuildPipeline(progs, toks, owner),
                          allow_dangerous |-> ad]
    /\ output = [done |-> FALSE, result |-> Accepted]

Validate ==
    /\ ~output.done
    /\ \E r \in validate_pipeline(settings, safe_commands, dangerous_commands,
                                  whitelist, blacklist,
                                  input.pipeline, input.allow_dangerous) :
          output' = [done |-> TRUE, result |-> r]
    /\ UNCHANGED <<settings, safe_commands, dangerous_commands, whitelist,
                   blacklist, input, calls, recap_dir, recap_log>>

NextValidate == Validate

SpecValidate == InitValidate /\ [][NextValidate]_vars

-----------------------------------------------------------------------------
\* Loading the policy: CommandValidator.__init__ reads the YAML document and
\* builds the validator; validate_pipeline then runs on what was built.
\*
\* A node of the document where the loader expects a mapping is of one of
\* these kinds: "absent" (no such key), "null", "mapping", or a value that is
\* no mapping, "falsy" ([], "", 0, false) or "truthy" (a list, a string, a
\* number). Fields that a kind does not have hold a filler.

NotMappings == {"falsy", "truthy"}

NoArgs(kind) == [kind |-> kind, whitelist |-> {}, blacklist |-> {}]
ArgsMapping(wl, bl) == [kind |-> "mapping", whitelist |-> wl, blacklist |-> bl]
NoSpec(kind) == [kind |-> kind, args |-> NoArgs("absent")]
SpecMapping(args) == [kind |-> "mapping", args |-> args]
NoSection(kind) == [kind |-> kind, value |-> <<>>]
SectionMapping(specs) == [kind |-> "mapping", value |-> specs]
NoSettings(kind) == [kind |-> kind, value |-> SettingsNone]
SettingsMapping(st) == [kind |-> "mapping", value |-> st]

\* self.config.get("settings", {}): only a missing key gives the default
GetSettings(node) ==
    IF node.kind = "absent" THEN SettingsEmpty
    ELSE IF node.kind = "mapping" THEN node.value
    ELSE SettingsNone

\* self.config.get(key) or {}: every falsy value is replaced by {}
GetOrEmpty(node) ==
    IF node.kind = "truthy" \/ (node.kind = "mapping" /\ DOMAIN node.value # {})
    THEN node
    ELSE SectionMapping(<<>>)

\* what the constructor leaves: an exception, or the validator's fields
ConstructionRaised(err) ==
    [raised |-> TRUE, error |-> err, settings |-> SettingsEmpty,
     safe_commands |-> {}, dangerous_commands |-> {},
     whitelist |-> <<>>, blacklist |-> <<>>]
Constructed(st, safe, dangerous, wl, bl) ==
    [raised |-> FALSE, error |-> "None", settings |-> st,
     safe_commands |-> safe, dangerous_commands |-> dangerous,
     whitelist |-> wl, blacklist |-> bl]

\* "args_spec = spec.get("args") if isinstance(spec, dict) else None" of a
\* spec that is not None; the result is None for the kinds absent and null
ArgsSpecOf(spec) == IF spec.kind = "mapping" THEN spec.args ELSE NoArgs("null")

\* CommandValidator.__init__: .keys() of a section that is no mapping and
\* .get() of an args node that is no mapping raise AttributeError; in
\* {**raw_safe, **raw_dangerous} the dangerous section's spec replaces the
\* safe section's for a program of both
CommandValidator(config) ==
    LET raw_safe == GetOrEmpty(config.safe_commands)
        raw_dangerous == GetOrEmpty(config.dangerous_commands)
    IN  IF raw_safe.kind # "mapping" \/ raw_dangerous.kind # "mapping"
        THEN ConstructionRaised("AttributeError")
        ELSE LET merged == raw_dangerous.value @@ raw_safe.value
                 specd == {p \in DOMAIN merged : merged[p].kind # "null"}
                 withArgs == {p \in specd :
                                ArgsSpecOf(merged[p]).kind \notin {"absent", "null"}}
             IN  IF \E p \in withArgs : merged[p].args.kind # "mapping"
                 THEN ConstructionRaised("AttributeError")
                 ELSE Constructed(GetSettings(config.settings),
                                  DOMAIN raw_safe.value, DOMAIN raw_dangerous.value,
                                  BuildIndex([p \in withArgs |-> merged[p].args.whitelist]),
                                  BuildIndex([p \in withArgs |-> merged[p].args.blacklist]))

MaxLoadArgs == 1   \* most arguments of the command validated after a load

\* the documents: each node of every kind, the lists over ListEntries
AbsentKinds == {"absent", "null"}
SettingsNodes ==
    {NoSettings(k) : k \in AbsentKinds \cup NotMappings}
        \cup {SettingsMapping(st) : st \in AllSettings \ {SettingsNone}}
ArgsNodes ==
    {NoArgs(k) : k \in AbsentKinds \cup NotMappings}
        \cup {ArgsMapping(wl, bl) : wl \in SUBSET ListEntries, bl \in SUBSET ListEntries}
SpecNodes ==
    {NoSpec(k) : k \in {"null"} \cup NotMappings}
        \cup {SpecMapping(a) : a \in ArgsNodes}
DeclaredSpecNodes == SpecNodes \ {NoSpec("null")}

\* a section before its specs are filled in: its kind and, for a mapping,
\* its programs
SectionShapes ==
    {[kind |-> k, keys |-> {}] : k \in AbsentKinds \cup NotMappings}
        \cup {[kind |-> "mapping", keys |-> K] : K \in SUBSET ValidatePrograms}

\* the section of that shape: the programs of specs get their node, the
\* others a null spec
Section(name, shape, specs) ==
    IF shape.kind = "mapping"
    THEN SectionMapping([p \in shape.keys |->
                            IF <<name, p>> \in DOMAIN specs
                            THEN specs[<<name, p>>]
                            ELSE NoSpec("null")])
    ELSE NoSection(shape.kind)

InitConfig ==
    /\ IdleValidator
    /\ IdleServer
    /\ \E safe \in SectionShapes, dangerous \in SectionShapes,
          st \in SettingsNodes, ad \in BOOLEAN,
          program \in ValidatePrograms, n \in 0..MaxLoadArgs :
         \E args \in [1..n -> ValidateTokens],
            declared \in SetsUpTo(({"safe_commands"} \X safe.keys)
                                    \cup ({"dangerous_commands"} \X dangerous.keys),
                                  MaxSpecs) :
            \E specs \in [declared -> DeclaredSpecNodes] :
               input = [config |->
                           [settings |-> st,
                            safe_commands |-> Section("safe_commands", safe, specs),
                            dangerous_commands |->
                                Section("dangerous_commands", dangerous, specs)],
                        pipeline |-> <<[program |-> program, args |-> args]>>,
                        allow_dangerous |-> ad]
    /\ output = [phase |-> "start", error |-> "None", result |-> Accepted]

\* validator = CommandValidator() in main(): the server starts only if the
\* constructor returns
Construct ==
    /\ output.phase = "start"
    /\ LET v == CommandValidator(input.config)
       IN  IF v.raised
           THEN /\ output' = [output EXCEPT !.phase = "construction_raised",
                                            !.error = v.error]
                /\ UNCHANGED <<settings, safe_commands, dangerous_commands,
                               whitelist, blacklist>>
           ELSE /\ settings' = v.settings
                /\ safe_commands' = v.safe_commands
                /\ dangerous_commands' = v.dangerous_commands
                /\ whitelist' = v.whitelist
                /\ blacklist' = v.blacklist
                /\ output' = [output EXCEPT !.phase = "loaded"]
    /\ UNCHANGED <<input, calls, recap_dir, recap_log>>

\* validate_pipeline on the validator that was built
ValidateLoaded ==
    /\ output.phase = "loaded"
    /\ \E r \in validate_pipeline(settings, safe_commands, dangerous_commands,
                                  whitelist, blacklist,
                                  input.pipeline, input.allow_dangerous) :
          output' = [output EXCEPT !.phase = "validated", !.result = r]
    /\ UNCHANGED <<settings, safe_commands, dangerous_commands, whitelist,
                   blacklist, input, calls, recap_dir, recap_log>>

NextConfig == Construct \/ ValidateLoaded

SpecConfig == InitConfig /\ [][NextConfig]_vars

-----------------------------------------------------------------------------
\* The ssh_exec tool: requests are parsed into a Pipeline, validated, rendered
\* and handed to the SSH transport. A coroutine runs without interruption
\* between two awaits, so each action is one such stretch of the handler.

binbash == <<"/", "b", "i", "n", "/", "b", "a", "s", "h">>
semicolon == <<";">>
rm == <<"r", "m">>
flag9 == <<"-", "9">>

RawCommand(program, args) == [program |-> program, args |-> args]

\* the "commands" lists callers send
ExecRequests ==
    { <<>>,
      <<RawCommand(binbash, <<>>)>>,
      <<RawCommand(rm, <<>>)>>,
      <<RawCommand(psNewline, <<>>)>>,
      <<RawCommand(ps, <<>>)>>,
      <<RawCommand(ps, <<semicolon>>)>>,
      <<RawCommand(ps, <<flagCl>>)>>,
      <<RawCommand(kill, <<flag9>>)>>,
      <<RawCommand(kill, <<semicolon>>)>>,
      <<RawCommand(ps, <<>>), RawCommand(kill, <<>>)>> }

Hosts == {"web"}

NoCommand == <<"<", "n", "o", "n", "e", ">">>
NoReturn == [kind |-> "none", command |-> NoCommand, exit_code |-> 0,
             reason |-> NoReason]

\* f"ERROR: {error}"
ErrorText(reason) ==
    [kind |-> "error", command |-> NoCommand, exit_code |-> 0, reason |-> reason]

\* f"Command: {command}\nExit code: {result['exit_code']}\n\n..."
OutputText(command, exit_code) ==
    [kind |-> "output", command |-> command, exit_code |-> exit_code,
     reason |-> NoReason]

\* an exception of the transport or of the recap file, formatted by
\* f"ERROR: {str(e)}"
FailureText(what) == ErrorText(Reason(what, <<>>, <<>>))

NewCall(hostname, raw, allow_dangerous) ==
    [pc |-> "received", hostname |-> hostname, raw |-> raw,
     allow_dangerous |-> allow_dangerous, pipeline |-> <<>>,
     validated |-> FALSE, is_valid |-> FALSE, error |-> NoReason,
     rendered |-> FALSE, command |-> NoCommand,
     conn |-> "none", connects |-> 0, ran |-> <<>>, saves |-> 0,
     ret |-> NoReturn, exc |-> "None"]

Init ==
    /\ settings \in AllSettings
    /\ safe_commands = {ps}
    /\ dangerous_commands = {kill}
    /\ whitelist = (kill :> {flag9})
    /\ blacklist = (ps :> {flagC})
    /\ input = <<>>
    /\ output = <<>>
    /\ recap_dir \in BOOLEAN
    /\ recap_log = <<>>
    /\ calls \in [1..NumCalls ->
                    {NewCall(h, raw, ad) :
                        h \in Hosts, raw \in ExecRequests, ad \in BOOLEAN}]

\* ssh_exec without the early return
MutIsValidTest(r) == TRUE

\* "if not is_valid: return"
IsValidTest(r) == r.ok

\* the validate_pipeline call ssh_exec makes
ExecValidate(pipeline, allow_dangerous) ==
    validate_pipeline(settings, safe_commands, dangerous_commands,
                      whitelist, blacklist, pipeline, allow_dangerous)

\* command = build_shell_command(pipeline)
ExecCommand(pipeline) == build_shell_command(pipeline)

\* RecapLogger.save: what the log holds afterwards; nothing is written
\* without a recap directory
Saved(log, hostname, command, text) ==
    IF recap_dir
    THEN Append(log, [hostname |-> hostname, command |-> command, output |-> text])
    ELSE log

\* the outcomes of one RecapLogger.save: written (or skipped), or OSError
SaveOutcomes == IF recap_dir THEN {"ok", "oserror"} ELSE {"ok"}

\* The framework builds the Pipeline argument from the request: an invalid
\* program name or an empty list raises ValidationError and ssh_exec's body
\* never starts.
Parse(i) ==
    LET c == calls[i]
        built == NewPipeline(c.raw)
    IN  /\ c.pc = "received"
        /\ calls' = [calls EXCEPT ![i] =
              IF built.raised
              THEN [c EXCEPT !.pc = "raised", !.exc = "ValidationError"]
              ELSE [c EXCEPT !.pc = "parsed", !.pipeline = built.value]]
        /\ UNCHANGED <<settings, safe_commands, dangerous_commands, whitelist,
                       blacklist, input, output, recap_dir, recap_log>>

\* ssh_exec from its first line to the first await: validate, return the
\* error text or render and start connecting
Enter(i) ==
    LET c == calls[i]
    IN  /\ c.pc = "parsed"
        /\ \E r \in ExecValidate(c.pipeline, c.allow_dangerous) :
              calls' = [calls EXCEPT ![i] =
                 IF r.kind = "raise"
                 THEN [c EXCEPT !.pc = "raised", !.exc = r.reason.err]
                 ELSE IF ~IsValidTest(r)
                 THEN [c EXCEPT !.pc = "returned", !.validated = TRUE,
                                !.is_valid = r.ok, !.error = r.reason,
                                !.ret = ErrorText(r.reason)]
                 ELSE [c EXCEPT !.pc = "connecting", !.validated = TRUE,
                                !.is_valid = r.ok, !.error = r.reason,
                                !.rendered = TRUE,
                                !.command = ExecCommand(c.pipeline),
                                !.connects = c.connects + 1]]
        /\ UNCHANGED <<settings, safe_commands, dangerous_commands, whitelist,
                       blacklist, input, output, recap_dir, recap_log>>

\* the "except Exception" handler: save the error text and return it; a
\* failing save leaves ssh_exec by the exception
HandleFailure(i, c, what) ==
    \E s \in SaveOutcomes :
        IF s = "ok"
        THEN /\ recap_log' = Saved(recap_log, c.hostname, c.command, FailureText(what))
             /\ calls' = [calls EXCEPT ![i] =
                   [c EXCEPT !.pc = "returned", !.saves = c.saves + 1,
                             !.ret = FailureText(what)]]
        ELSE /\ recap_log' = recap_log
             /\ calls' = [calls EXCEPT ![i] =
                   [c EXCEPT !.pc = "raised", !.saves = c.saves + 1,
                             !.exc = "OSError"]]

\* asyncssh.connect succeeds; execute() hands the command to the connection
ConnectOk(i) ==
    LET c == calls[i]
    IN  /\ c.pc = "connecting"
        /\ calls' = [calls EXCEPT ![i] =
              [c EXCEPT !.pc = "running", !.conn = "open",
                        !.ran = Append(c.ran, c.command)]]
        /\ UNCHANGED <<settings, safe_commands, dangerous_commands, whitelist,
                       blacklist, input, output, recap_dir, recap_log>>

\* asyncssh.connect raises: no connection, the handler takes over
ConnectFail(i) ==
    LET c == calls[i]
    IN  /\ c.pc = "connecting"
        /\ HandleFailure(i, c, "ConnectError")
        /\ UNCHANGED <<settings, safe_commands, dangerous_commands, whitelist,
                       blacklist, input, output, recap_dir>>

\* the remote command ends: format the output, save the recap, close, return
RunOk(i) ==
    LET c == calls[i]
    IN  /\ c.pc = "running"
        /\ \E code \in {0, 1}, s \in SaveOutcomes :
              LET closed == [c EXCEPT !.conn = "closed", !.saves = c.saves + 1]
              IN  IF s = "ok"
                  THEN /\ recap_log' = Saved(recap_log, c.hostname, c.command,
                                             OutputText(c.command, code))
                       /\ calls' = [calls EXCEPT ![i] =
                             [closed EXCEPT !.pc = "returned",
                                            !.ret = OutputText(c.command, code)]]
                  ELSE HandleFailure(i, closed, "OSError")
        /\ UNCHANGED <<settings, safe_commands, dangerous_commands, whitelist,
                       blacklist, input, output, recap_dir>>

\* the remote command fails or times out: close, the handler takes over
RunFail(i) ==
    LET c == calls[i]
    IN  /\ c.pc = "running"
        /\ HandleFailure(i, [c EXCEPT !.conn = "closed"], "RunError")
        /\ UNCHANGED <<settings, safe_commands, dangerous_commands, whitelist,
                       blacklist, input, output, recap_dir>>

Next ==
    \E i \in 1..NumCalls :
        \/ Parse(i)
        \/ Enter(i)
        \/ ConnectOk(i)
        \/ ConnectFail(i)
        \/ RunOk(i)
        \/ RunFail(i)

Spec == Init /\ [][Next]_vars

-----------------------------------------------------------------------------
\* Properties of Command construction (SpecName)

\* the pattern ^[A-Za-z0-9_][A-Za-z0-9_.+-]*$ matched against the whole string
FullyMatchesPattern(v) ==
    /\ v # <<>>
    /\ Head(v) \in NameFirst
    /\ Chars(Tail(v)) \subseteq NameRest

\* C3: Command construction succeeds exactly for the program strings that are
\* non-empty and fully match the pattern, so the program of every Command
\* that exists holds no '/', no whitespace and no shell metacharacter.
CexC3 ==
    output.done =>
        /\ (~output.raised <=> FullyMatchesPattern(input.program))
        /\ (~output.raised =>
                Chars(input.program) \cap (Whitespace \cup {"/", ";", "|"}) = {})

-----------------------------------------------------------------------------
\* Properties of build_shell_command (SpecRender)

\* What a POSIX shell makes of a command line, read left to right: the words
\* of each command after quote removal, the outline of the line (W for a
\* word, then the unquoted blanks and pipes as they come), and whether any
\* character had a special meaning other than quoting, a blank or a pipe.
LexStart ==
    [mode |-> "unquoted", word |-> <<>>, inword |-> FALSE, words |-> <<>>,
     cmds |-> <<>>, outline |-> <<>>, special |-> FALSE]

EndWord(st) ==
    IF st.inword
    THEN [st EXCEPT !.words = Append(st.words, st.word), !.word = <<>>,
                    !.inword = FALSE]
    ELSE st

StartWord(st) ==
    IF st.inword THEN st
    ELSE [st EXCEPT !.inword = TRUE, !.outline = Append(st.outline, "W")]

LexStep(st, c) ==
    IF st.mode = "single"
    THEN IF c = "'" THEN [st EXCEPT !.mode = "unquoted"]
         ELSE [st EXCEPT !.word = Append(st.word, c)]
    ELSE IF st.mode = "double"
    THEN IF c = "\"" THEN [st EXCEPT !.mode = "unquoted"]
         ELSE [st EXCEPT !.word = Append(st.word, c),
                         !.special = st.special \/ c # "'"]
    ELSE IF c = " "
    THEN [EndWord(st) EXCEPT !.outline = Append(st.outline, " ")]
    ELSE IF c = "|"
    THEN LET e == EndWord(st)
         IN  [e EXCEPT !.cmds = Append(e.cmds, e.words), !.words = <<>>,
                       !.outline = Append(e.outline, "|")]
    ELSE IF c = "'" THEN [StartWord(st) EXCEPT !.mode = "single"]
    ELSE IF c = "\"" THEN [StartWord(st) EXCEPT !.mode = "double"]
    ELSE LET w == StartWord(st)
         IN  [w EXCEPT !.word = Append(w.word, c),
                       !.special = w.special \/ c \notin ShlexSafe]

RECURSIVE LexFrom(_, _)
LexFrom(s, st) == IF s = <<>> THEN st ELSE LexFrom(Tail(s), LexStep(st, Head(s)))

ShellLex(s) ==
    LET e == EndWord(LexFrom(s, LexStart))
    IN  [e EXCEPT !.cmds = Append(e.cmds, e.words), !.words = <<>>]

\* the words of a command, and the outline of a pipeline written with one
\* blank between words and " | " between commands
WordsOf(cmd) == <<cmd.program>> \o cmd.args

OutlineOf(pipeline) ==
    Join([i \in 1..Len(pipeline) |->
            Join([j \in 1..Len(WordsOf(pipeline[i])) |-> <<"W">>], <<" ">>)],
         <<" ", "|", " ">>)

\* C2: for every pipeline, whatever its argument strings hold, the output is
\* each command's quoted tokens joined by one blank and the commands joined
\* by " | "; the only unquoted shell metacharacters are those pipes, every
\* character outside the safe set is inside single quotes or is an escaped
\* quote, and the shell reads back exactly the programs and arguments.
TheoremC2 ==
    output.done =>
        LET lexed == ShellLex(output.command)
        IN  /\ lexed.mode = "unquoted"
            /\ ~lexed.special
            /\ lexed.outline = OutlineOf(input.pipeline)
            /\ lexed.cmds = [i \in 1..Len(input.pipeline) |->
                                WordsOf(input.pipeline[i])]

\* a two-command pipeline with a quote-breaking argument and an empty one
WitnessC2 ==
    /\ output.done
    /\ Len(input.pipeline) = 2
    /\ input.pipeline[1].program = psNewline
    /\ input.pipeline[1].args = << <<"'", ";">> >>
    /\ input.pipeline[2].args = << <<>> >>
    /\ output.command =
          <<"'", "p", "s", "\n", "'", " ",
            "'", "'", "\"", "'", "\"", "'", ";", "'",
            " ", "|", " ", "p", "s", " ", "'", "'">>

-----------------------------------------------------------------------------
\* Properties of _find_blocked_arg (SpecMatch)

\* a two-character single-dash flag
IsShortFlag(b) == Len(b) = 2 /\ b[1] = "-" /\ b[2] # "-"

\* the three shapes of a match
ExactShape(token, blocked) == token \in blocked

FlagValueShape(token, blocked) ==
    \E i \in 1..Len(token) :
        /\ token[i] = "="
        /\ \A j \in 1..(i - 1) : token[j] # "="
        /\ SubSeq(token, 1, i - 1) \in blocked

CombinedShape(token, blocked) ==
    /\ Len(token) > 2
    /\ token[1] = "-"
    /\ token[2] # "-"
    /\ \E b \in blocked :
          IsShortFlag(b) /\ \E i \in 2..Len(token) : token[i] = b[2]

\* C7: _find_blocked_arg reports a match exactly when the token is a member
\* of blocked, or the part before its first '=' is, or it is a bundle of
\* short flags one of which is a blocked two-character flag; '-C' blocks
\* '-C', '-Cl' and '-lC' but neither '-c' nor '--color'.
TheoremC7 ==
    /\ output.done =>
          (output.matched.some <=>
              \/ ExactShape(input.token, input.blocked)
              \/ FlagValueShape(input.token, input.blocked)
              \/ CombinedShape(input.token, input.blocked))
    /\ (output.done /\ input.blocked = {flagC}) =>
          /\ input.token \in {flagC, flagCl, flaglC} => output.matched = Some(flagC)
          /\ input.token \in {flagc, color} => output.matched = None

\* '-lC' was matched against a blacklist holding '-C' by the bundle rule
WitnessC7 ==
    /\ output.done
    /\ input.token = flaglC
    /\ flagC \in input.blocked
    /\ flaglC \notin input.blocked
    /\ output.matched = Some(flagC)

-----------------------------------------------------------------------------
\* Properties of validate_pipeline (SpecValidate)

Programs(pipeline) == {pipeline[i].program : i \in 1..Len(pipeline)}

\* some shape of a blacklist match applies
MatchesBlacklist(token, blocked) ==
    \/ ExactShape(token, blocked)
    \/ FlagValueShape(token, blocked)
    \/ CombinedShape(token, blocked)

AllWhitelisted(cmd) ==
    cmd.program \in DOMAIN whitelist =>
        \A j \in 1..Len(cmd.args) : cmd.args[j] \in whitelist[cmd.program]

NoneBlacklisted(cmd) ==
    cmd.program \in DOMAIN blacklist =>
        \A j \in 1..Len(cmd.args) :
            ~MatchesBlacklist(cmd.args[j], blacklist[cmd.program])

\* C4: a pipeline holding, at any position, a program that is in neither the
\* safe nor the dangerous set is not accepted, whatever the policy and the
\* allow_dangerous flag.
TheoremC4 ==
    (output.done /\ ~(Programs(input.pipeline) \subseteq
                        safe_commands \cup dangerous_commands))
        => ~output.result.ok

\* the unknown program is the second command, behind a safe one, with the flag
WitnessC4 ==
    /\ output.done
    /\ input.allow_dangerous
    /\ Len(input.pipeline) = 2
    /\ input.pipeline[1].program \in safe_commands \ dangerous_commands
    /\ input.pipeline[2].program \notin safe_commands \cup dangerous_commands
    /\ output.result =
          Rejected("ProgramNotAllowed", input.pipeline[2].program, <<>>)

\* C5: with allow_dangerous false no pipeline holding a dangerous program
\* (listed as safe too or not) is accepted; with allow_dangerous true the
\* category check never rejects it and the outcome is the one the same
\* pipeline has when its dangerous programs are plain safe ones, so the
\* whitelist and the blacklist still decide.
TheoremC5 ==
    output.done =>
        /\ (~input.allow_dangerous
              /\ Programs(input.pipeline) \cap dangerous_commands # {})
            => ~output.result.ok
        /\ input.allow_dangerous =>
            /\ output.result.reason.err # "DangerousProgramBlocked"
            /\ output.result \in
                  validate_pipeline(settings, safe_commands \cup dangerous_commands,
                                    {}, whitelist, blacklist, input.pipeline, FALSE)
            /\ output.result.ok =>
                  \A i \in 1..Len(input.pipeline) : AllWhitelisted(input.pipeline[i])

\* a program listed as safe and dangerous passes the category check with the
\* flag and is then stopped by its blacklist
WitnessC5 ==
    /\ output.done
    /\ input.allow_dangerous
    /\ input.pipeline[1].program \in safe_commands \cap dangerous_commands
    /\ output.result =
          Rejected("ArgumentBlacklisted", input.pipeline[1].program, flagC)

\* what C6 asks of the pipeline
AllSafeAndListsPass ==
    /\ Programs(input.pipeline) \subseteq safe_commands
    /\ \A i \in 1..Len(input.pipeline) :
          AllWhitelisted(input.pipeline[i]) /\ NoneBlacklisted(input.pipeline[i])

\* C6 as stated: for every policy (every settings value) and every pipeline of
\* any length whose programs are all safe and whose arguments pass the
\* whitelists and blacklists, validate_pipeline returns (accepted, no reason).
CexC6 ==
    (output.done /\ AllSafeAndListsPass) => output.result = Accepted

\* C6 amended: the same, for a policy whose settings is a mapping, a pipeline
\* of one command or allow_pipes true or absent, and programs that are not
\* also listed as dangerous unless allow_dangerous is true.
TheoremC6 ==
    (/\ output.done
     /\ AllSafeAndListsPass
     /\ settings.mapping
     /\ (Len(input.pipeline) = 1 \/ ~settings.has_allow_pipes \/ settings.allow_pipes)
     /\ (input.allow_dangerous
            \/ Programs(input.pipeline) \cap dangerous_commands = {}))
        => output.result = Accepted

\* two commands, no allow_pipes key, the first with both lists and an argument
WitnessC6 ==
    /\ output.done
    /\ AllSafeAndListsPass
    /\ settings = SettingsEmpty
    /\ ~input.allow_dangerous
    /\ Len(input.pipeline) = 2
    /\ input.pipeline[1].program \in DOMAIN whitelist \cap DOMAIN blacklist
    /\ input.pipeline[1].args = <<flagC>>
    /\ output.result = Accepted

\* C8: with a whitelist entry for its program, a command is accepted only if
\* each of its tokens is literally in the whitelist (no bundling, no prefix
\* before '='), and a whitelist rejection names the program and the first
\* token of that command that is not a member.
TheoremC8 ==
    output.done =>
        /\ output.result.ok =>
              \A i \in 1..Len(input.pipeline) : AllWhitelisted(input.pipeline[i])
        /\ output.result.reason.err = "ArgumentNotWhitelisted" =>
              \E i \in 1..Len(input.pipeline) :
                 LET cmd == input.pipeline[i]
                 IN  /\ cmd.program = output.result.reason.program
                     /\ cmd.program \in DOMAIN whitelist
                     /\ \E j \in 1..Len(cmd.args) :
                           /\ cmd.args[j] = output.result.reason.arg
                           /\ cmd.args[j] \notin whitelist[cmd.program]
                           /\ \A h \in 1..(j - 1) :
                                 cmd.args[h] \in whitelist[cmd.program]

\* '-C' is whitelisted: '-C=1' and '-Cl' are not members, the first is named
WitnessC8 ==
    /\ output.done
    /\ ps \in DOMAIN whitelist
    /\ whitelist[ps] = {flagC}
    /\ input.pipeline = <<[program |-> ps, args |-> <<flagC, flagCeq>>]>>
    /\ output.result = Rejected("ArgumentNotWhitelisted", ps, flagCeq)

\* the first command reaches the argument checks
FirstReachesLists ==
    /\ settings.mapping
    /\ (Len(input.pipeline) = 1 \/ ~settings.has_allow_pipes \/ settings.allow_pipes)
    /\ \/ input.pipeline[1].program \in dangerous_commands /\ input.allow_dangerous
       \/ input.pipeline[1].program \in safe_commands \ dangerous_commands

\* C9: for a program with both lists the whitelist gate comes first and the
\* blacklist always wins: with every token whitelisted and one of them also
\* blacklisted the command is rejected with the blacklist reason, and with a
\* token that is not whitelisted it is rejected with the whitelist reason.
CexC9 ==
    LET cmd == input.pipeline[1]
    IN  (/\ output.done
         /\ FirstReachesLists
         /\ cmd.program \in DOMAIN whitelist \cap DOMAIN blacklist)
        => /\ (AllWhitelisted(cmd) /\ ~NoneBlacklisted(cmd))
                => (~output.result.ok
                    /\ output.result.reason.err = "ArgumentBlacklisted")
           /\ ~AllWhitelisted(cmd)
                => (~output.result.ok
                    /\ output.result.reason.err = "ArgumentNotWhitelisted")

\* the positions of cmd's tokens for which _find_blocked_arg can return an
\* entry of the program's blacklist (a value other than None)
MatchedPositions(cmd) ==
    {j \in 1..Len(cmd.args) :
        \E m \in find_blocked_arg(cmd.args[j], blacklist[cmd.program]) : m.some}

\* C12: for a command whose program has a blacklist and which passed the
\* category and whitelist checks, if _find_blocked_arg returns an entry for
\* one of its tokens then the pipeline is rejected and the reason names the
\* entry matched by the first such token.
CexC12 ==
    LET cmd == input.pipeline[1]
    IN  (/\ output.done
         /\ FirstReachesLists
         /\ AllWhitelisted(cmd)
         /\ cmd.program \in DOMAIN blacklist
         /\ MatchedPositions(cmd) # {})
        => LET j == CHOOSE h \in MatchedPositions(cmd) :
                        \A g \in MatchedPositions(cmd) : h <= g
           IN  /\ ~output.result.ok
               /\ output.result.reason.err = "ArgumentBlacklisted"
               /\ output.result.reason.program = cmd.program
               /\ Some(output.result.reason.arg)
                     \in find_blocked_arg(cmd.args[j], blacklist[cmd.program])

\* the same statement for blacklists that do not hold the empty string
C12WithoutEmptyEntry ==
    (\A p \in DOMAIN blacklist : empty \notin blacklist[p]) => CexC12

\* the least element of a non-empty set of positions
First(S) == CHOOSE h \in S : \A g \in S : h <= g

\* more than one command while allow_pipes is false (true when absent)
PipeViolation ==
    /\ Len(input.pipeline) > 1
    /\ settings.has_allow_pipes
    /\ ~settings.allow_pipes

\* the reasons the checks of one command may give, taken in the order
\* category, whitelist, blacklist; empty when the command violates nothing
CommandViolations(cmd) ==
    LET notListed == {j \in 1..Len(cmd.args) :
                         cmd.args[j] \notin whitelist[cmd.program]}
    IN  IF cmd.program \in dangerous_commands /\ ~input.allow_dangerous
        THEN {Rejected("DangerousProgramBlocked", cmd.program, <<>>)}
        ELSE IF cmd.program \notin dangerous_commands \cup safe_commands
        THEN {Rejected("ProgramNotAllowed", cmd.program, <<>>)}
        ELSE IF cmd.program \in DOMAIN whitelist /\ notListed # {}
        THEN {Rejected("ArgumentNotWhitelisted", cmd.program,
                       cmd.args[First(notListed)])}
        ELSE IF cmd.program \in DOMAIN blacklist /\ MatchedPositions(cmd) # {}
        THEN {Rejected("ArgumentBlacklisted", cmd.program, m.val) :
                m \in {e \in find_blocked_arg(cmd.args[First(MatchedPositions(cmd))],
                                              blacklist[cmd.program]) : e.some}}
        ELSE {}

\* the results the fixed order allows: the pipe violation, else the first
\* violation of the first violating command, else acceptance
FirstViolation ==
    LET violating == {i \in 1..Len(input.pipeline) :
                         CommandViolations(input.pipeline[i]) # {}}
    IN  IF PipeViolation
        THEN {Rejected("PipesDisallowed", <<>>, <<>>)}
        ELSE IF violating # {}
        THEN CommandViolations(input.pipeline[First(violating)])
        ELSE {Accepted}

\* C13: validate_pipeline returns the reason of the first violation in the
\* order pipe check, then per command from left to right category, whitelist
\* over all arguments, blacklist over all arguments; a later violation never
\* replaces an earlier one and the pipe violation is reported before any
\* category violation.
CexC13 == output.done => output.result \in FirstViolation

\* the same statement for policies whose settings is a mapping and whose
\* blacklists do not hold the empty string
C13WithoutKnownDefects ==
    (/\ settings.mapping
     /\ \A p \in DOMAIN blacklist : empty \notin blacklist[p]) => CexC13

-----------------------------------------------------------------------------
\* Properties of the policy loader (SpecConfig)

\* a node that must be a mapping holds a value that is neither a mapping nor
\* null: settings, a section, a program's spec or a spec's args
MalformedSection(section) ==
    \/ section.kind \in NotMappings
    \/ \E p \in DOMAIN section.value :
          \/ section.value[p].kind \in NotMappings
          \/ section.value[p].args.kind \in NotMappings
Malformed(config) ==
    \/ config.settings.kind \in NotMappings
    \/ MalformedSection(config.safe_commands)
    \/ MalformedSection(config.dangerous_commands)

\* C11: constructing a CommandValidator from a configuration in which a
\* value that must be a mapping is not one fails at construction; no such
\* configuration loads and is then used by validate_pipeline.
CexC11 ==
    Malformed(input.config) => output.phase \in {"start", "construction_raised"}

\* a loaded malformed configuration never makes validate_pipeline raise
C11NoRaiseAtValidation ==
    (Malformed(input.config) /\ output.phase = "validated")
        => output.result.kind # "raise"

\* a configuration in which a program's spec is no mapping never loads (it
\* loads with no argument restriction for that program)
C11SpecNeverAccepted ==
    (\E section \in {input.config.safe_commands, input.config.dangerous_commands} :
        \E p \in DOMAIN section.value : section.value[p].kind \in NotMappings)
        => output.phase \in {"start", "construction_raised"}

-----------------------------------------------------------------------------
\* Properties of ssh_exec (Spec)

\* the transport has been touched for this call
TransportUsed(c) == c.connects > 0 \/ c.conn # "none" \/ c.ran # <<>>

\* C1: in every ssh_exec call the transport is used only after
\* validate_pipeline accepted that call's pipeline with that call's
\* allow_dangerous, and only with the string build_shell_command made of it;
\* after a rejection ssh_exec returns the 'ERROR: <reason>' text and nothing
\* is rendered, connected, executed or written to the recap.
TheoremC1 ==
    /\ \A i \in 1..NumCalls :
         LET c == calls[i]
         IN  /\ TransportUsed(c) =>
                   /\ c.validated /\ c.is_valid
                   /\ c.pipeline = [k \in 1..Len(c.raw) |-> c.raw[k]]
                   /\ Accepted \in ExecValidate(c.pipeline, c.allow_dangerous)
                   /\ c.command = build_shell_command(c.pipeline)
             /\ \A k \in 1..Len(c.ran) : c.ran[k] = build_shell_command(c.pipeline)
             /\ (c.validated /\ ~c.is_valid) =>
                   /\ c.pc = "returned"
                   /\ c.ret = ErrorText(c.error)
                   /\ c.error # NoReason
                   /\ ~c.rendered /\ c.command = NoCommand
                   /\ ~TransportUsed(c)
                   /\ c.saves = 0
    /\ \A e \in 1..Len(recap_log) :
          \E i \in 1..NumCalls :
             /\ calls[i].is_valid
             /\ recap_log[e].hostname = calls[i].hostname
             /\ recap_log[e].command = build_shell_command(calls[i].pipeline)

\* one call ran "ps | kill" to the end with the flag while another, the same
\* request without the flag, was rejected
WitnessC1 ==
    \E i, j \in 1..NumCalls :
        /\ calls[i].raw = <<RawCommand(ps, <<>>), RawCommand(kill, <<>>)>>
        /\ calls[i].allow_dangerous
        /\ calls[i].pc = "returned"
        /\ calls[i].ret.kind = "output"
        /\ calls[i].ran = << <<"p", "s", " ", "|", " ", "k", "i", "l", "l">> >>
        /\ Len(recap_log) = 1
        /\ calls[j].raw = calls[i].raw
        /\ ~calls[j].allow_dangerous
        /\ calls[j].pc = "returned"
        /\ calls[j].ret = ErrorText(Reason("DangerousProgramBlocked", kill, <<>>))

PolicyRejections ==
    {"PipesDisallowed", "ProgramNotAllowed", "DangerousProgramBlocked",
     "ArgumentNotWhitelisted", "ArgumentBlacklisted"}

\* the request holds an error of the construction kind
BadRequest(raw) ==
    raw = <<>> \/ \E k \in 1..Len(raw) : ~FullyMatchesPattern(raw[k].program)

\* C10 as stated: every error of the taxonomy, an invalid program name and a
\* pipeline with zero commands included, reaches the caller as a structured
\* (false, reason) result and never as an exception.
CexC10 ==
    \A i \in 1..NumCalls :
        LET c == calls[i]
        IN  (c.pc \in {"returned", "raised"}
                /\ (BadRequest(c.raw) \/ (c.validated /\ ~c.is_valid)))
            => (c.pc = "returned" /\ c.ret.kind = "error" /\ c.exc = "None")

\* C10 amended: the five policy rejections reach the caller as a structured
\* (false, reason) result, never as an exception; a program name that fails
\* the name check and a pipeline with zero commands do not: they raise a
\* validation error at construction, before validate_pipeline is called.
TheoremC10 ==
    \A i \in 1..NumCalls :
        LET c == calls[i]
        IN  /\ (c.validated /\ ~c.is_valid) =>
                  /\ c.pc = "returned"
                  /\ c.exc = "None"
                  /\ c.error.err \in PolicyRejections
                  /\ c.ret = ErrorText(c.error)
            /\ (c.pc # "received"
                  /\ (c.raw = <<>>
                      \/ \E k \in 1..Len(c.raw) :
                            ~validate_program_name(c.raw[k].program))) =>
                  /\ c.pc = "raised"
                  /\ c.exc = "ValidationError"
                  /\ ~c.validated
            /\ c.exc = "ValidationError" => BadRequest(c.raw)

\* an empty pipeline was raised, a blacklisted argument was returned
WitnessC10 ==
    \E i, j \in 1..NumCalls :
        /\ calls[i].raw = <<>>
        /\ calls[i].pc = "raised"
        /\ calls[i].exc = "ValidationError"
        /\ calls[j].pc = "returned"
        /\ calls[j].ret = ErrorText(Reason("ArgumentBlacklisted", ps, flagC))

====
